---- MODULE Spec2Model ----
(***************************************************************************)
(* Model of pixelate_email.py: the pixelation transform                    *)
(* (pixelate_region), the load / pixelate-each-region / save pipeline      *)
(* (process_image) and the command-line entry point (main).                *)
(*                                                                         *)
(* Two specifications are defined over the same variables:                 *)
(*   SpecPix  - direct calls of pixelate_region on a buffer, a rectangle   *)
(*              and a block size drawn from bounded sets;                  *)
(*   Spec     - one run of main(), the regions list drawn rectangle by     *)
(*              rectangle.                                                 *)
(***************************************************************************)
EXTENDS Integers, Sequences, FiniteSets, TLC

VARIABLES pc, fs, writes, img_array, regions, pixel_size, exc, exit_status,
          stdout, orig, prev

vars == <<pc, fs, writes, img_array, regions, pixel_size, exc, exit_status,
          stdout, orig, prev>>

(***************************************************************************)
(* Bounds of the model.                                                    *)
(***************************************************************************)
\* largest buffer handed to a direct pixelate_region call (SpecPix)
MaxWidth == 7
MaxHeight == 2
\* largest image decoded by a run of main (Spec)
MaxImgWidth == 4
MaxImgHeight == 1
\* block sizes 1..MaxPixelSize are tried besides PIXEL_SIZE
MaxPixelSize == 2

(***************************************************************************)
(* Configuration constants of the program.                                 *)
(***************************************************************************)
INPUT_FILE == "email.jpg"
OUTPUT_FILE == "email_pixelated.jpg"
PIXEL_SIZE == 15
\* main passes regions = [FROM_COLUMN, SUBJECT_COLUMN]
NumRegions == 2

Max(a, b) == IF a >= b THEN a ELSE b
Min(a, b) == IF a <= b THEN a ELSE b

(***************************************************************************)
(* Image buffers: shape (height, width, channels) of unsigned 8-bit        *)
(* samples.  px[y][x] is the tuple of the channel samples of one pixel.    *)
(***************************************************************************)
\* an RGB buffer in which every pixel is different from every other
IndexImage(h, w) ==
    [height |-> h, width |-> w, channels |-> 3,
     px |-> [y \in 0..(h - 1) |-> [x \in 0..(w - 1) |->
               << (3 * (y * w + x)) % 256,
                  (3 * (y * w + x) + 1) % 256,
                  (3 * (y * w + x) + 2) % 256 >>]]]

\* a greyscale buffer with a black/white checkerboard
CheckerImage(h, w) ==
    [height |-> h, width |-> w, channels |-> 1,
     px |-> [y \in 0..(h - 1) |-> [x \in 0..(w - 1) |->
               << ((x + y) % 2) * 255 >>]]]

Images(maxh, maxw) ==
    UNION { {IndexImage(h, w), CheckerImage(h, w)} : h \in 1..maxh, w \in 1..maxw }

PixelSizes == (1..MaxPixelSize) \cup {PIXEL_SIZE}

(***************************************************************************)
(* numpy basic slicing a[start:stop] on an axis of length n: a negative    *)
(* index counts from the end, and both ends are clipped to 0..n.           *)
(***************************************************************************)
SliceIndex(k, n) == IF k < 0 THEN Max(k + n, 0) ELSE Min(k, n)

SliceStart(start, stop, n) == SliceIndex(start, n)

SliceLen(start, stop, n) == Max(0, SliceIndex(stop, n) - SliceIndex(start, n))

(***************************************************************************)
(* Image.resize(size, Image.NEAREST).                                      *)
(* The library walks the output axis with a double-precision accumulator   *)
(* xo = a*0.5, xo += a (a = in/out) and takes the source index (int)xo.    *)
(* This is floor((2x+1)*in / (2*out)) except where that quotient is an     *)
(* exact integer and the rounded sum falls just below it; those cases are  *)
(* tabulated here for sizes up to 12 as <<in, out, x>>.                    *)
(***************************************************************************)
FloatTieBelow ==
    { <<2, 7, 3>>, <<4, 6, 4>>, <<4, 7, 3>>, <<4, 10, 7>>, <<6, 9, 4>>,
      <<6, 11, 5>>, <<8, 6, 4>>, <<8, 7, 3>>, <<8, 10, 7>>, <<8, 12, 4>>,
      <<12, 9, 4>>, <<12, 11, 5>> }

\* a plausible slip: top-left sample of each cell instead of its centre
NearestIndexNoCentre(x, insz, outsz) == (x * insz) \div outsz

NearestIndex(x, insz, outsz) ==
    LET e == ((2 * x + 1) * insz) \div (2 * outsz)
    IN  IF <<insz, outsz, x>> \in FloatTieBelow THEN e - 1 ELSE e

\* an image of the library: size (width, height) and its pixels
BlankPixel(channels) == [c \in 1..channels |-> 0]

\* Resize returns [raised, im]; a target size with a zero side is refused
Resize(im, w, h) ==
    IF w < 1 \/ h < 1
    THEN [raised |-> "ValueError", im |-> im]
    ELSE [raised |-> "none",
          im |-> [height |-> h, width |-> w, channels |-> im.channels,
                  px |-> [y \in 0..(h - 1) |-> [x \in 0..(w - 1) |->
                     LET yin == NearestIndex(y, im.height, h)
                         xin == NearestIndex(x, im.width, w)
                     IN  IF yin < im.height /\ xin < im.width
                         THEN im.px[yin][xin]
                         ELSE BlankPixel(im.channels)]]]]

(***************************************************************************)
(* pixelate_region(img_array, x1, y1, x2, y2, pixel_size)                  *)
(***************************************************************************)
\* a plausible slip: the guard against a zero-sized intermediate image is missing
TempDimNoGuard(extent, size) == extent \div size

\* a plausible slip: rounding the reduced dimension up instead of down
TempDimCeil(extent, size) == Max(1, (extent + size - 1) \div size)

\* a plausible slip: one block too coarse
TempDimOffByOne(extent, size) == Max(1, extent \div (size + 1))

\* temp_height / temp_width
TempDim(extent, size) == Max(1, extent \div size)

\* region = img_array[y1:y2, x1:x2] as an image of its own
Region(img, x1, y1, x2, y2) ==
    LET ys == SliceStart(y1, y2, img.height)
        xs == SliceStart(x1, x2, img.width)
        h  == SliceLen(y1, y2, img.height)
        w  == SliceLen(x1, x2, img.width)
    IN  [height |-> h, width |-> w, channels |-> img.channels,
         px |-> [y \in 0..(h - 1) |-> [x \in 0..(w - 1) |->
                   img.px[ys + y][xs + x]]]]

\* a plausible slip: the target slice starts one column too far right
WriteBackShifted(img, x1, y1, x2, y2, pixelated) ==
    LET ys == SliceStart(y1, y2, img.height)
        xs == SliceStart(x1, x2, img.width)
    IN  [img EXCEPT !.px =
            [y \in 0..(img.height - 1) |-> [x \in 0..(img.width - 1) |->
                IF /\ y >= ys /\ y < ys + pixelated.height
                   /\ x >= xs + 1 /\ x < Min(xs + 1 + pixelated.width, img.width)
                THEN pixelated.px[y - ys][x - xs - 1]
                ELSE img.px[y][x]]]]

\* img_array[y1:y2, x1:x2] = np.array(pixelated)
WriteBack(img, x1, y1, x2, y2, pixelated) ==
    LET ys == SliceStart(y1, y2, img.height)
        xs == SliceStart(x1, x2, img.width)
    IN  [img EXCEPT !.px =
            [y \in 0..(img.height - 1) |-> [x \in 0..(img.width - 1) |->
                IF /\ y >= ys /\ y < ys + pixelated.height
                   /\ x >= xs /\ x < xs + pixelated.width
                THEN pixelated.px[y - ys][x - xs]
                ELSE img.px[y][x]]]]

\* returns [raised, img_array]: the buffer is the argument when an error is raised
pixelate_region(img, x1, y1, x2, y2, size) ==
    LET region      == Region(img, x1, y1, x2, y2)
        height      == region.height
        width       == region.width
        temp_height == TempDim(height, size)
        temp_width  == TempDim(width, size)
        small       == Resize(region, temp_width, temp_height)
        pixelated   == Resize(small.im, width, height)
    IN  IF small.raised # "none"
        THEN [raised |-> small.raised, img_array |-> img]
        ELSE IF pixelated.raised # "none"
        THEN [raised |-> pixelated.raised, img_array |-> img]
        ELSE [raised |-> "none",
              img_array |-> WriteBack(img, x1, y1, x2, y2, pixelated.im)]

(***************************************************************************)
(* Rectangles (x1, y1, x2, y2).                                            *)
(***************************************************************************)
\* 0 <= x1 < x2 <= width and 0 <= y1 < y2 <= height
ValidRect(img, r) ==
    /\ 0 <= r[1] /\ r[1] < r[3] /\ r[3] <= img.width
    /\ 0 <= r[2] /\ r[2] < r[4] /\ r[4] <= img.height

Degenerate(r) == r[3] <= r[1] \/ r[4] <= r[2]

OutOfBounds(img, r) ==
    \/ r[1] < 0 \/ r[2] < 0 \/ r[3] < 0 \/ r[4] < 0
    \/ r[3] > img.width \/ r[4] > img.height

\* pixel positions the tuple names: x1 <= x < x2 and y1 <= y < y2
Inside(r, x, y) == r[1] <= x /\ x < r[3] /\ r[2] <= y /\ y < r[4]

\* every rectangle with coordinates one step around the buffer
RectInputs(img) ==
    { <<x1, y1, x2, y2>> : x1 \in (-1)..(img.width + 1), y1 \in (-1)..(img.height + 1),
                           x2 \in (-1)..(img.width + 1), y2 \in (-1)..(img.height + 1) }

NoImage == [height |-> 0, width |-> 0, channels |-> 0, px |-> <<>>]

\* a file: absent, an image the library can decode, or bytes it cannot
AbsentFile == [state |-> "absent", image |-> NoImage]
CorruptFile == [state |-> "corrupt", image |-> NoImage]
ImageFile(img) == [state |-> "image", image |-> img]
NoFiles == [p \in {INPUT_FILE, OUTPUT_FILE} |-> AbsentFile]

(***************************************************************************)
(* SpecPix: pixelate_region called on (img_array, regions[1], pixel_size), *)
(* and called again on its own result.                                     *)
(***************************************************************************)
InitPix ==
    /\ pc = "call"
    /\ fs = NoFiles
    /\ writes = <<>>
    /\ img_array \in Images(MaxHeight, MaxWidth)
    /\ \E r \in RectInputs(img_array) : regions = <<r>>
    /\ pixel_size \in PixelSizes
    /\ exc = "none"
    /\ exit_status = -1
    /\ stdout = <<>>
    /\ orig = img_array
    /\ prev = img_array

CallPixelateRegion ==
    /\ pc \in {"call", "called"}
    /\ LET r   == regions[1]
           res == pixelate_region(img_array, r[1], r[2], r[3], r[4], pixel_size)
       IN  /\ img_array' = res.img_array
           /\ exc' = res.raised
    /\ prev' = img_array
    /\ pc' = "called"
    /\ UNCHANGED <<fs, writes, regions, pixel_size, exit_status, stdout, orig>>

NextPix == CallPixelateRegion

SpecPix == InitPix /\ [][NextPix]_vars

(***************************************************************************)
(* Properties of pixelate_region, checked under SpecPix.                   *)
(***************************************************************************)
TheRect == regions[1]
RectW == TheRect[3] - TheRect[1]
RectH == TheRect[4] - TheRect[2]
RectXs == TheRect[1]..(TheRect[3] - 1)
RectYs == TheRect[2]..(TheRect[4] - 1)
CalledOnValid == pc = "called" /\ ValidRect(orig, TheRect)

\* the b x b tile of the rectangle, aligned to its top-left corner, that holds (x, y)
TileOf(x, y) == << (x - TheRect[1]) \div pixel_size, (y - TheRect[2]) \div pixel_size >>

TileConstant ==
    \A x \in RectXs, y \in RectYs, u \in RectXs, v \in RectYs :
        TileOf(x, y) = TileOf(u, v) => img_array.px[y][x] = img_array.px[v][u]

FromSource ==
    \A x \in RectXs, y \in RectYs :
        \E u \in RectXs, v \in RectYs : img_array.px[y][x] = orig.px[v][u]

\* an extent the reduced grid divides into whole tiles
WholeTiles(extent) == extent % pixel_size = 0 \/ extent < 2 * pixel_size

\* C2: pixelating a valid rectangle a second time with the same block size
\* gives the buffer the first call gave, also when the rectangle's width or
\* height is no multiple of the block size.
C2_Idempotent ==
    CalledOnValid =>
        LET again == pixelate_region(img_array, TheRect[1], TheRect[2],
                                     TheRect[3], TheRect[4], pixel_size)
        IN  again.raised = "none" /\ again.img_array = img_array

\* the second call has run on a buffer the first call changed, the width
\* being no multiple of the block size
C2_Witness ==
    /\ CalledOnValid /\ prev = img_array /\ img_array # orig
    /\ RectW % pixel_size # 0 /\ RectW > pixel_size

\* C3 as stated: after a call on a valid rectangle the pixels are constant
\* within every b x b tile of the rectangle and every value comes from the
\* source sub-region.
C3_AsStated == CalledOnValid => TileConstant /\ FromSource

\* C3 amended: every pixel of the rectangle holds a value of the source
\* sub-region, and the pixels are constant within every b x b tile when the
\* width and the height are each a multiple of b or smaller than 2*b.
C3_TilesWhenWhole ==
    CalledOnValid =>
        /\ FromSource
        /\ (WholeTiles(RectW) /\ WholeTiles(RectH) => TileConstant)

\* a rectangle of several whole tiles has been pixelated and changed
C3_Witness ==
    /\ CalledOnValid /\ img_array # orig
    /\ RectW % pixel_size = 0 /\ RectW >= 2 * pixel_size
    /\ RectH % pixel_size = 0 /\ pixel_size > 1

RowsUniform ==
    \A y \in RectYs : \A x \in RectXs, u \in RectXs :
        img_array.px[y][x] = img_array.px[y][u]

ColumnsUniform ==
    \A x \in RectXs : \A y \in RectYs, v \in RectYs :
        img_array.px[y][x] = img_array.px[v][x]

RectUniform ==
    \A x \in RectXs, y \in RectYs, u \in RectXs, v \in RectYs :
        img_array.px[y][x] = img_array.px[v][u]

\* C4 as stated: a valid rectangle narrower or lower than the block size is
\* pixelated without an error and ends as one uniform value.
C4_AsStated ==
    CalledOnValid /\ (RectW < pixel_size \/ RectH < pixel_size) =>
        exc = "none" /\ RectUniform

\* C4 amended: no error is raised and the reduced dimension is never 0; a
\* width below the block size makes every row of the rectangle uniform, a
\* height below it every column, and both together the whole rectangle.
C4_CollapsePerAxis ==
    CalledOnValid =>
        /\ exc = "none"
        /\ TempDim(RectW, pixel_size) >= 1 /\ TempDim(RectH, pixel_size) >= 1
        /\ (RectW < pixel_size => TempDim(RectW, pixel_size) = 1 /\ RowsUniform)
        /\ (RectH < pixel_size => TempDim(RectH, pixel_size) = 1 /\ ColumnsUniform)
        /\ (RectW < pixel_size /\ RectH < pixel_size => RectUniform)

\* a rectangle smaller than the block in both axes has collapsed to one value
C4_Witness ==
    /\ CalledOnValid /\ img_array # orig
    /\ RectW < pixel_size /\ RectH < pixel_size /\ RectW > 1 /\ RectH > 1

\* C5: with block size 1 the reduced dimensions are the rectangle's own and
\* the call leaves the whole buffer as it was.
C5_BlockOneIdentity ==
    CalledOnValid /\ pixel_size = 1 =>
        /\ TempDim(RectW, pixel_size) = RectW
        /\ TempDim(RectH, pixel_size) = RectH
        /\ exc = "none"
        /\ img_array = orig

\* block size 1 has been applied to a rectangle of several distinct pixels
C5_Witness ==
    /\ CalledOnValid /\ pixel_size = 1 /\ RectW > 1 /\ RectH > 1
    /\ orig.px[TheRect[2]][TheRect[1]] # orig.px[TheRect[2]][TheRect[1] + 1]

\* C10 as stated (any raised error is taken for the rejection): a rectangle
\* reaching beyond the buffer is refused with an error and the buffer is
\* left as it was, never truncated to the part inside and pixelated.
C10_AsStated ==
    pc = "called" /\ OutOfBounds(orig, TheRect) =>
        exc # "none" /\ img_array = orig

(***************************************************************************)
(* Spec: one run of main().                                                *)
(* regions holds the part of the regions list the loop has consumed; the   *)
(* next rectangle is drawn when the loop reaches it.  The rows of a        *)
(* rectangle are drawn inside the image, its columns one step around it.   *)
(***************************************************************************)
RegionInputs(img) ==
    { r \in RectInputs(img) : 0 <= r[2] /\ r[2] < r[4] /\ r[4] <= img.height }

InputFiles ==
    {AbsentFile, CorruptFile} \cup { ImageFile(img) : img \in Images(MaxImgHeight, MaxImgWidth) }

Init ==
    /\ pc = "main"
    /\ \E f \in InputFiles : fs = [NoFiles EXCEPT ![INPUT_FILE] = f]
    /\ writes = <<>>
    /\ img_array = NoImage
    /\ regions = <<>>
    /\ pixel_size \in PixelSizes
    /\ exc = "none"
    /\ exit_status = -1
    /\ stdout = <<>>
    /\ orig = NoImage
    /\ prev = NoImage

\* input_file.exists() and the early exit
MainExists ==
    /\ pc = "main"
    /\ IF fs[INPUT_FILE].state = "absent"
       THEN /\ stdout' = Append(stdout, <<"Error: Input file not found", INPUT_FILE>>)
            /\ exit_status' = 1
            /\ pc' = "exited"
       ELSE /\ pc' = "open"
            /\ UNCHANGED <<stdout, exit_status>>
    /\ UNCHANGED <<fs, writes, img_array, regions, pixel_size, exc, orig, prev>>

\* img = Image.open(input_path); img_array = np.array(img)
OpenImage ==
    /\ pc = "open"
    /\ IF fs[INPUT_FILE].state = "image"
       THEN /\ img_array' = fs[INPUT_FILE].image
            /\ orig' = fs[INPUT_FILE].image
            /\ prev' = fs[INPUT_FILE].image
            /\ pc' = "loop"
            /\ exc' = exc
       ELSE /\ exc' = "UnidentifiedImageError"
            /\ pc' = "except"
            /\ UNCHANGED <<img_array, orig, prev>>
    /\ UNCHANGED <<fs, writes, regions, pixel_size, exit_status, stdout>>

\* a plausible slip: every call starts from the decoded input again
NextBufferFromInput(input, current, r, size) ==
    pixelate_region(input, r[1], r[2], r[3], r[4], size)

\* the loop body: img_array = pixelate_region(img_array, x1, y1, x2, y2, pixel_size)
NextBuffer(input, current, r, size) ==
    pixelate_region(current, r[1], r[2], r[3], r[4], size)

\* a plausible slip: the result is saved from inside the loop
LoopDoneEarly(regs) == Len(regs) >= 1

\* the for loop has run through the regions list
LoopDone(regs) == Len(regs) = NumRegions

PixelateNext ==
    /\ pc = "loop"
    /\ ~LoopDone(regions)
    /\ \E r \in RegionInputs(img_array) :
          LET res == NextBuffer(orig, img_array, r, pixel_size)
          IN  /\ regions' = Append(regions, r)
              /\ img_array' = res.img_array
              /\ exc' = res.raised
              /\ pc' = IF res.raised = "none" THEN "loop" ELSE "except"
    /\ prev' = img_array
    /\ UNCHANGED <<fs, writes, pixel_size, exit_status, stdout, orig>>

\* result_img.save(output_path, quality=QUALITY): the file is written, or
\* the encoder or the disk fails, leaving no file or a truncated one
SaveImage ==
    /\ pc = "loop"
    /\ LoopDone(regions)
    /\ \/ /\ fs' = [fs EXCEPT ![OUTPUT_FILE] = ImageFile(img_array)]
          /\ writes' = Append(writes, OUTPUT_FILE)
          /\ pc' = "return"
          /\ exc' = exc
       \/ /\ \E f \in {AbsentFile, CorruptFile} : fs' = [fs EXCEPT ![OUTPUT_FILE] = f]
          /\ writes' = writes
          /\ exc' = "OSError"
          /\ pc' = "except"
    /\ UNCHANGED <<img_array, regions, pixel_size, exit_status, stdout, orig, prev>>

\* print(f"Successfully processed image: {output_path}") and the normal end
MainReturn ==
    /\ pc = "return"
    /\ stdout' = Append(stdout, <<"Successfully processed image", OUTPUT_FILE>>)
    /\ exit_status' = 0
    /\ pc' = "exited"
    /\ UNCHANGED <<fs, writes, img_array, regions, pixel_size, exc, orig, prev>>

\* a plausible slip: the handler prints and forgets sys.exit(1)
HandleExceptionNoExit(e) == [msg |-> <<"Error processing image", e>>, status |-> 0]

\* except Exception as e: print(...); sys.exit(1)
HandleException(e) == [msg |-> <<"Error processing image", e>>, status |-> 1]

MainExcept ==
    /\ pc = "except"
    /\ stdout' = Append(stdout, HandleException(exc).msg)
    /\ exit_status' = HandleException(exc).status
    /\ pc' = "exited"
    /\ UNCHANGED <<fs, writes, img_array, regions, pixel_size, exc, orig, prev>>

Next ==
    \/ MainExists
    \/ OpenImage
    \/ PixelateNext
    \/ SaveImage
    \/ MainReturn
    \/ MainExcept

Spec == Init /\ [][Next]_vars

(***************************************************************************)
(* Properties of process_image and main, checked under Spec.               *)
(***************************************************************************)
Loaded == pc \in {"loop", "return", "except", "exited"} /\ orig # NoImage
AllValid == \A i \in 1..Len(regions) : ValidRect(orig, regions[i])
Succeeded == pc = "exited" /\ exit_status = 0

OutsideEvery(x, y) == \A i \in 1..Len(regions) : ~Inside(regions[i], x, y)

\* the rectangles of regs applied to img one after another, first to last
RECURSIVE ApplyInOrder(_, _, _)
ApplyInOrder(img, regs, size) ==
    IF regs = <<>>
    THEN img
    ELSE LET r == regs[Len(regs)]
             before == ApplyInOrder(img, SubSeq(regs, 1, Len(regs) - 1), size)
         IN  pixelate_region(before, r[1], r[2], r[3], r[4], size).img_array

\* C1: while process_image applies rectangles that lie within the buffer,
\* every pixel outside every rectangle applied so far holds its input value
\* and the height, width and channel count of the buffer are the input's;
\* the same is true of the image saved.
C1_OutsideUntouched ==
    Loaded /\ AllValid =>
        /\ img_array.height = orig.height
        /\ img_array.width = orig.width
        /\ img_array.channels = orig.channels
        /\ \A y \in 0..(orig.height - 1), x \in 0..(orig.width - 1) :
              OutsideEvery(x, y) => img_array.px[y][x] = orig.px[y][x]
        /\ fs[OUTPUT_FILE].state = "image" =>
              \A y \in 0..(orig.height - 1), x \in 0..(orig.width - 1) :
                 OutsideEvery(x, y) => fs[OUTPUT_FILE].image.px[y][x] = orig.px[y][x]

\* a run has succeeded with two valid rectangles that changed the buffer
\* and left some pixel outside both
C1_Witness ==
    /\ Succeeded /\ AllValid /\ Len(regions) = NumRegions
    /\ img_array # orig /\ prev # orig /\ img_array # prev
    /\ \E y \in 0..(orig.height - 1), x \in 0..(orig.width - 1) : OutsideEvery(x, y)

\* C6 as stated (any raised error is taken for InvalidRegion): once the loop
\* has taken a rectangle with x2 <= x1 or y2 <= y1 from the regions list,
\* the call has raised, the buffer is as it was before the call, the run is
\* on its way to exit status 1 and no output file is written.
C6_AsStated ==
    (\E i \in 1..Len(regions) : Degenerate(regions[i])) =>
        /\ exc # "none"
        /\ pc \in {"except", "exited"}
        /\ img_array = prev
        /\ writes = <<>>
        /\ fs[OUTPUT_FILE] = AbsentFile
        /\ pc = "exited" => exit_status = 1

\* C7: main ends in one of two ways: status 1 after one printed message,
\* when the input file is missing or a step of process_image raised; or
\* status 0 after printing the output path, when no step raised.  An error
\* raised is always on its way to the handler or handled.
C7_ExitOutcomes ==
    /\ pc # "exited" => exit_status = -1
    /\ exc # "none" => pc \in {"except", "exited"}
    /\ pc = "exited" =>
          \/ /\ exit_status = 1
             /\ fs[INPUT_FILE].state = "absent"
             /\ stdout = << <<"Error: Input file not found", INPUT_FILE>> >>
             /\ exc = "none"
          \/ /\ exit_status = 1
             /\ fs[INPUT_FILE].state # "absent"
             /\ exc # "none"
             /\ stdout = << <<"Error processing image", exc>> >>
          \/ /\ exit_status = 0
             /\ fs[INPUT_FILE].state = "image"
             /\ exc = "none"
             /\ stdout = << <<"Successfully processed image", OUTPUT_FILE>> >>

\* a run has ended with status 1 because a pixelation step raised
C7_Witness ==
    /\ pc = "exited" /\ exit_status = 1 /\ exc = "ValueError"
    /\ Len(regions) = NumRegions

C9_SequentialOrder ==
    Loaded /\ exc = "none" =>
        /\ img_array = ApplyInOrder(orig, regions, pixel_size)
        /\ Len(regions) >= 1 =>
              /\ prev = ApplyInOrder(orig, SubSeq(regions, 1, Len(regions) - 1), pixel_size)
              /\ LET r == regions[Len(regions)]
                 IN  img_array = pixelate_region(prev, r[1], r[2], r[3], r[4],
                                                 pixel_size).img_array

\* two overlapping valid rectangles have been applied, and the other order
\* would have given another buffer
C9_Witness ==
    /\ Succeeded /\ AllValid /\ Len(regions) = NumRegions
    /\ \E y \in 0..(orig.height - 1), x \in 0..(orig.width - 1) :
          Inside(regions[1], x, y) /\ Inside(regions[2], x, y)
    /\ img_array # ApplyInOrder(orig, <<regions[2], regions[1]>>, pixel_size)

====
